---- MODULE Spec2Model ----
(***************************************************************************)
(* Session-scoped multi-file brushset conversion (src/app.py).             *)
(*                                                                         *)
(* The state is the content of the uploads folder (session directories,   *)
(* key_id.txt files, accumulated images, packaged archives, per-request    *)
(* temp files and extraction folders) and the usage counters kept by the   *)
(* licensing service.  One action per HTTP handler; a handler runs from    *)
(* its first line to its return (or to the exception that ends it) in one  *)
(* step, and records the order of its effects in `log`.                    *)
(***************************************************************************)
EXTENDS Integers, Sequences, FiniteSets, TLC

\* ------------------------------------------------------------------ bounds

\* Number of convert-single requests in a run.
MaxRequests == 2

\* Largest number of entries in an uploaded archive.
MaxEntries == 2

\* activation_limit of the limited license key held by the licensing service.
ActivationLimit == 1

\* ----------------------------------------------------------------- values

None == "None"

\* Form field session_id: strings over a small alphabet, written as
\* sequences of characters.
SessionIds ==
    { <<"a", " ", "b">>, <<"a", "_", "b">>, <<".", ".">> }

\* Form field license_key.
LicenseKeys == { "KEY-GOOD", "KEY-EXPIRED", "KEY-BOGUS", None }

\* The license-keys collection of the licensing service: what
\* GET /license-keys?filter[key]=... returns for each key it knows.
\* `limited` FALSE is an activation_limit of None.
LicenseDB ==
    [ k \in {"KEY-GOOD", "KEY-UNLIMITED", "KEY-EXPIRED"} |->
        CASE k = "KEY-GOOD" ->
               [id |-> "id-good", status |-> "active",
                limited |-> TRUE, activation_limit |-> ActivationLimit]
          [] k = "KEY-UNLIMITED" ->
               [id |-> "id-unlimited", status |-> "active",
                limited |-> FALSE, activation_limit |-> 0]
          [] OTHER ->
               [id |-> "id-expired", status |-> "expired",
                limited |-> FALSE, activation_limit |-> 0] ]

KeyIds == { LicenseDB[k].id : k \in DOMAIN LicenseDB }

\* Outcome of one HTTP call to the licensing service.
ServiceOutcomes == { "ok", "down" }

\* ------------------------------------------------- werkzeug secure_filename

\* filename.replace(os.sep, " ")
ReplaceSep(s) == [i \in 1..Len(s) |-> IF s[i] = "/" THEN " " ELSE s[i]]

\* "_".join(filename.split()): leading and trailing whitespace disappears
\* and every inner run of whitespace becomes one "_".
RECURSIVE DropSpace(_)
DropSpace(s) ==
    IF s # <<>> /\ Head(s) = " " THEN DropSpace(Tail(s)) ELSE s

RECURSIVE JoinWords(_)
JoinWords(s) ==
    IF s = <<>> THEN <<>>
    ELSE IF Head(s) = " "
         THEN LET r == DropSpace(s)
              IN  IF r = <<>> THEN <<>> ELSE <<"_">> \o JoinWords(r)
         ELSE <<Head(s)>> \o JoinWords(Tail(s))

\* _filename_ascii_strip_re.sub("", ...): only [A-Za-z0-9_.-] survives.
AsciiStrip(s) == SelectSeq(s, LAMBDA c : c \notin {" ", "/"})

\* .strip("._")
RECURSIVE StripLeft(_)
StripLeft(s) ==
    IF s # <<>> /\ Head(s) \in {".", "_"} THEN StripLeft(Tail(s)) ELSE s

RECURSIVE StripRight(_)
StripRight(s) ==
    IF s # <<>> /\ s[Len(s)] \in {".", "_"}
    THEN StripRight(SubSeq(s, 1, Len(s) - 1))
    ELSE s

secure_filename(s) ==
    StripRight(StripLeft(AsciiStrip(JoinWords(DropSpace(ReplaceSep(s))))))

\* ------------------------------------------------------------ the uploads

\* UPLOAD_FOLDER itself, as a session directory name: os.path.join(
\* UPLOAD_FOLDER, "") is the folder.
Root == <<>>

\* The names a session directory can take.
DirNames == { secure_filename(s) : s \in SessionIds }

\* f"converted_{secure_filename(session_id)}.zip"
ZipName(d) == <<"converted", "_">> \o d \o <<".", "zip">>

\* The <filename> part of a download-zip request: the locators handed out.
DownloadNames == { ZipName(d) : d \in DirNames }

ZipNames == { secure_filename(f) : f \in DownloadNames } \cup { ZipName(d) : d \in DirNames }

NoFile == "NoFile"

\* A zip file of the uploads folder: absent, or present with its entries.
NoZip == [present |-> FALSE, entries |-> {}]

Zip(entries) == [present |-> TRUE, entries |-> entries]

\* "download_url" of a response that carries none.
NoUrl == <<>>

\* ------------------------------------------------------ uploaded archives

MinDimension == 1024

\* str.lower() on the names used here.
Lower(str) ==
    CASE str = "PNG" -> "png"
      [] str = "Artwork" -> "artwork"
      [] OTHER -> str

Entry(stem, ext, decodable, width, height) ==
    [stem |-> stem, ext |-> ext, decodable |-> decodable, width |-> width, height |-> height]

\* Files an archive of a session can hold.
SessionEntries ==
    { Entry("shape", "png", TRUE, 2048, 2048),
      Entry("grain", "jpg", TRUE, 1024, 1024),
      Entry("thumb", "png", TRUE, 512, 512) }

\* request.files['brush_file']: missing, not a zip file, a zip file whose
\* extraction raises something else than BadZipFile, or a well-formed zip.
Upload(kind, entries) == [kind |-> kind, entries |-> entries]

NoUpload == Upload("none", {})

Uploads ==
    { NoUpload, Upload("notzip", {}), Upload("unreadable", {}) }
    \cup { Upload("zip", es) : es \in { x \in SUBSET SessionEntries : Cardinality(x) <= MaxEntries } }

\* Lines 113-118: the filter applied to one extracted file.
Qualifies(e) ==
    /\ Lower(e.ext) \in {"png", "jpg", "jpeg"}
    /\ e.decodable
    /\ e.width >= MinDimension
    /\ e.height >= MinDimension
    /\ ~ (Lower(e.stem) = "artwork" /\ Lower(e.ext) = "png")

\* ------------------------------------------------------------- the state

VARIABLES
    uploadsExists,   \* UPLOAD_FOLDER exists
    sessionDirs,     \* the session directories under UPLOAD_FOLDER, by name
    keyIdFile,       \* key_id.txt of each session directory: its content, or NoFile
    sessionImages,   \* the *.png files of each session directory
    zipFiles,        \* converted_*.zip files of UPLOAD_FOLDER
    extractDirs,     \* extract_<uuid> folders of UPLOAD_FOLDER
    tempFiles,       \* temp_<uuid>_<name> files of UPLOAD_FOLDER
    uses,            \* licensing service: attribute "uses" of each key id
    requests,        \* convert-single requests handled so far
    req,             \* the request handled last
    resp,            \* its response
    log,             \* the effects of that request, in the order they happened
    fed,             \* per session directory: qualifying images of the units
                     \* accepted since the directory was created
    trusted          \* per session id: "none", the key id its last successful
                     \* license check stored, or "finalized" once packaged

vars ==
    << uploadsExists, sessionDirs, keyIdFile, sessionImages, zipFiles,
       extractDirs, tempFiles, uses, requests, req, resp, log, fed, trusted >>

\* The files and the service as one value, as a handler sees and changes them.
World ==
    [ up |-> uploadsExists, dirs |-> sessionDirs, key |-> keyIdFile,
      imgs |-> sessionImages, zips |-> zipFiles, ext |-> extractDirs,
      tmp |-> tempFiles, uses |-> uses, log |-> <<>> ]

Logged(w, event) == [w EXCEPT !.log = Append(@, event)]

\* os.path.exists / os.path.isdir of a session directory.
DirExists(w, d) == IF d = Root THEN w.up ELSE d \in w.dirs

\* os.makedirs(session_dir, exist_ok=True): creates UPLOAD_FOLDER too.
MakeDirs(w, d) ==
    [w EXCEPT !.up = TRUE, !.dirs = IF d = Root THEN @ ELSE @ \cup {d}]

\* shutil.rmtree(session_dir, ignore_errors=True).  The session directory
\* of an empty name is UPLOAD_FOLDER, with everything in it.
RmTree(w, d) ==
    IF d = Root
    THEN [w EXCEPT !.up = FALSE, !.dirs = {},
                   !.key = [x \in DirNames |-> NoFile],
                   !.imgs = [x \in DirNames |-> {}],
                   !.zips = [z \in ZipNames |-> NoZip],
                   !.ext = {}, !.tmp = {}]
    ELSE [w EXCEPT !.dirs = @ \ {d}, !.key[d] = NoFile, !.imgs[d] = {}]

\* Names of the image files in the session directories and in the archives.
ImageNames(w) ==
    { f.name : f \in UNION { w.imgs[d] : d \in DirNames } }
    \cup { f.name : f \in UNION { w.zips[z].entries : z \in ZipNames } }

\* The least positive number not in `used`.
Fresh(used) ==
    CHOOSE n \in 1..(Cardinality(used) + 1) :
        /\ n \notin used
        /\ \A m \in 1..(n - 1) : m \in used

\* uuid.uuid4().hex: a name no file of its kind carries.  All fresh names
\* behave alike, so the least free one stands for them.
uuid4(used) == Fresh(used)

\* ------------------------------------------------------ licensing service

\* validate_license_key: (key_data, error_message).  Every failure to get
\* an answer (no API key configured, HTTP error, network error) returns an
\* error message and no data.
validate_license_key(w, license_key, svc) ==
    IF svc = "down"
    THEN [error |-> "Could not connect to the license server.", id |-> None,
          status |-> None, limited |-> FALSE, activation_limit |-> 0, uses |-> 0]
    ELSE IF license_key \notin DOMAIN LicenseDB
    THEN [error |-> "The provided license key is not valid or could not be found.",
          id |-> None, status |-> None, limited |-> FALSE, activation_limit |-> 0, uses |-> 0]
    ELSE [error |-> None, id |-> LicenseDB[license_key].id,
          status |-> LicenseDB[license_key].status,
          limited |-> LicenseDB[license_key].limited,
          activation_limit |-> LicenseDB[license_key].activation_limit,
          uses |-> w.uses[LicenseDB[license_key].id]]

\* increment_license_usage: PATCH with increment 1; a failure is logged and
\* swallowed.
increment_license_usage(w, key_id, svc) ==
    IF svc = "ok"
    THEN Logged(Logged([w EXCEPT !.uses[key_id] = @ + 1], "increment_license_usage"), "patch_ok")
    ELSE Logged(Logged(w, "increment_license_usage"), "patch_error")

\* ----------------------------------------------------------- process_brushset

\* (image_paths, error, temp_extract_dir); temp_extract_dir 0 stands for None.
process_brushset(w, brush_file) ==
    LET x  == uuid4(w.ext)
        w1 == Logged([w EXCEPT !.ext = @ \cup {x}], "makedirs_extract")
    IN  CASE brush_file.kind = "notzip" ->
               [w |-> [w1 EXCEPT !.ext = @ \ {x}], images |-> {}, dir |-> 0,
                error |-> "Error: The uploaded file is not a valid .brushset"]
          [] brush_file.kind = "unreadable" ->
               [w |-> [Logged(w1, "extractall") EXCEPT !.ext = @ \ {x}], images |-> {}, dir |-> 0,
                error |-> "An unexpected server error occurred during file processing."]
          [] OTHER ->
               [w |-> Logged(w1, "extractall"),
                images |-> { e \in brush_file.entries : Qualifies(e) },
                dir |-> x, error |-> None]

\* -------------------------------------------------------------- convert_single

\* What a handler leaves: the files and the service, and the response.
\* Status 500 is an exception nobody caught.
Return(w, status, message) ==
    [w |-> w, status |-> status, message |-> message, download_url |-> NoUrl, archive |-> {}]

Crash(w) == Return(w, 500, "Internal Server Error")

\* Mutant of ImageName: the image is named after its position in its unit.
ImageNameByIndex(w, i) == i

\* Line 193: the name an image gets in the session directory.
ImageName(w, i) == uuid4(ImageNames(w))

\* Lines 191-193: shutil.move of each image into the session directory; a
\* file of the same name is replaced.
RECURSIVE MoveImages(_, _, _, _)
MoveImages(w, d, owner, k) ==
    IF k = 0 THEN w
    ELSE LET prev == MoveImages(w, d, owner, k - 1)
             name == ImageName(prev, k)
         IN  [prev EXCEPT !.imgs[d] =
                 { f \in @ : f.name # name } \cup { [name |-> name, owner |-> owner] }]

\* Mutant of Finalize: the usage update is sent before the archive is made.
FinalizeSettleFirst(w, d, svcSettle) ==
    LET z  == ZipName(d)
        w0 == IF DirExists(w, d) /\ w.key[d] # NoFile
              THEN increment_license_usage(w, w.key[d], svcSettle)
              ELSE w
        w1 == Logged([w0 EXCEPT !.zips[z] = Zip({})], "zip_open")
    IN  IF ~ DirExists(w1, d)
        THEN Crash(w1)
        ELSE LET entries == w1.imgs[d]
                 w2 == Logged([w1 EXCEPT !.zips[z] = Zip(entries)], "zip_written")
                 w4 == Logged(RmTree(w2, d), "rmtree_session")
             IN  [w |-> w4, status |-> 200,
                  message |-> "Processing complete. Your download is ready.",
                  download_url |-> z, archive |-> entries]

\* Lines 196-220: package the session directory, settle, clean up.
Finalize(w, d, svcSettle) ==
    LET z  == ZipName(d)
        w1 == Logged([w EXCEPT !.zips[z] = Zip({})], "zip_open")
    IN  IF ~ DirExists(w1, d)
        THEN Crash(w1)
        ELSE LET entries == w1.imgs[d]
                 w2 == Logged([w1 EXCEPT !.zips[z] = Zip(entries)], "zip_written")
                 w3 == IF w2.key[d] # NoFile
                       THEN increment_license_usage(w2, w2.key[d], svcSettle)
                       ELSE w2
                 w4 == Logged(RmTree(w3, d), "rmtree_session")
             IN  [w |-> w4, status |-> 200,
                  message |-> "Processing complete. Your download is ready.",
                  download_url |-> z, archive |-> entries]

\* Mutant of Accumulate: the usage update is sent for every unit.
AccumulateSettlingEachUnit(w, r, images, x, svcSettle) ==
    LET d == secure_filename(r.session_id)
    IN  IF images # {} /\ ~ DirExists(w, d)
        THEN Crash(Logged(w, "move_failed"))
        ELSE LET w1 == MoveImages(w, d, r.session_id, Cardinality(images))
                 w2 == Logged([w1 EXCEPT !.ext = @ \ {x}], "rmtree_extract")
             IN  IF r.is_last_file
                 THEN Finalize(w2, d, svcSettle)
                 ELSE Return(IF DirExists(w2, d) /\ w2.key[d] # NoFile
                             THEN increment_license_usage(w2, w2.key[d], svcSettle)
                             ELSE w2,
                             200, "File processed successfully. Awaiting next file.")

\* Lines 189-223: move the images to the session directory, drop the
\* extraction folder, and finish the session on the last file.
Accumulate(w, r, images, x, svcSettle) ==
    LET d == secure_filename(r.session_id)
    IN  IF images # {} /\ ~ DirExists(w, d)
        THEN Crash(Logged(w, "move_failed"))
        ELSE LET w1 == MoveImages(w, d, r.session_id, Cardinality(images))
                 w2 == Logged([w1 EXCEPT !.ext = @ \ {x}], "rmtree_extract")
             IN  IF r.is_last_file
                 THEN Finalize(w2, d, svcSettle)
                 ELSE Return(w2, 200, "File processed successfully. Awaiting next file.")

\* Lines 172-187: save the upload, extract it, remove the upload.
ProcessUpload(w, r, svcSettle) ==
    IF r.brush_file.kind = "none"
    THEN Return(w, 400, "No file was provided in the request.")
    ELSE IF ~ w.up
    THEN Crash(w)
    ELSE LET t  == uuid4(w.tmp)
             w1 == Logged([w EXCEPT !.tmp = @ \cup {t}], "save_temp")
             p  == process_brushset(w1, r.brush_file)
             w2 == Logged([p.w EXCEPT !.tmp = @ \ {t}], "remove_temp")
         IN  IF p.error # None
             THEN Return(w2, 400, p.error)
             ELSE Accumulate(w2, r, p.images, p.dir, svcSettle)

\* Mutant of FirstFile: the session directory is made before the key is
\* checked.
FirstFileDirFirst(w, r, svcCheck) ==
    LET d  == secure_filename(r.session_id)
        w0 == Logged(MakeDirs(w, d), "makedirs_session")
    IN  IF r.license_key = None
        THEN [pass |-> FALSE, out |-> Return(w0, 400, "License Key is required.")]
        ELSE LET v == validate_license_key(w0, r.license_key, svcCheck)
             IN  IF v.error # None
                 THEN [pass |-> FALSE, out |-> Return(w0, 400, v.error)]
                 ELSE IF v.status # "active"
                 THEN [pass |-> FALSE, out |-> Return(w0, 403, "This license key is not active.")]
                 ELSE IF v.limited /\ v.uses >= v.activation_limit
                 THEN [pass |-> FALSE,
                       out |-> Return(w0, 403, "This license key has reached its usage limit.")]
                 ELSE [pass |-> TRUE,
                       out |-> Return(Logged([w0 EXCEPT !.key[d] = v.id], "write_key_id"), 200, "")]

\* Lines 145-170: the license check of a first file.  `pass` says whether
\* the handler goes on to the upload.
FirstFile(w, r, svcCheck) ==
    IF r.license_key = None
    THEN [pass |-> FALSE, out |-> Return(w, 400, "License Key is required.")]
    ELSE LET v == validate_license_key(w, r.license_key, svcCheck)
         IN  IF v.error # None
             THEN [pass |-> FALSE, out |-> Return(Logged(w, "validate_license_key"), 400, v.error)]
             ELSE IF v.status # "active"
             THEN [pass |-> FALSE,
                   out |-> Return(Logged(w, "validate_license_key"), 403, "This license key is not active.")]
             ELSE IF v.limited /\ v.uses >= v.activation_limit
             THEN [pass |-> FALSE,
                   out |-> Return(Logged(w, "validate_license_key"), 403,
                                  "This license key has reached its usage limit.")]
             ELSE LET d  == secure_filename(r.session_id)
                      w1 == Logged(MakeDirs(Logged(w, "validate_license_key"), d), "makedirs_session")
                  IN  [pass |-> TRUE,
                       out |-> Return(Logged([w1 EXCEPT !.key[d] = v.id], "write_key_id"), 200, "")]

\* Mutant of convert_single: the license key is checked on every file.
convert_singleCheckingEveryFile(w, r, svcCheck, svcSettle) ==
    LET gate == FirstFile(w, r, svcCheck)
    IN  IF gate.pass
        THEN ProcessUpload(gate.out.w, r, svcSettle)
        ELSE gate.out

\* Lines 137-223.
convert_single(w, r, svcCheck, svcSettle) ==
    LET gate == IF r.is_first_file
                THEN FirstFile(w, r, svcCheck)
                ELSE [pass |-> TRUE, out |-> Return(w, 200, "")]
    IN  IF gate.pass
        THEN ProcessUpload(gate.out.w, r, svcSettle)
        ELSE gate.out

\* ------------------------------------------------------------- download_zip

\* Mutant of download_zip: the file is sent and left in place.
download_zipKeeping(w, filename) ==
    LET safe_filename == secure_filename(filename)
    IN  IF w.up /\ safe_filename \in ZipNames /\ w.zips[safe_filename].present
        THEN [w |-> Logged(w, "sent"),
              status |-> 200, message |-> "Procreate_Stamps.zip",
              download_url |-> NoUrl, archive |-> w.zips[safe_filename].entries]
        ELSE Return(Logged(w, "remove_failed"), 404, "Not Found")

\* Lines 225-239: send the file if there is one, then remove it; a failing
\* os.remove is logged and swallowed.
download_zip(w, filename) ==
    LET safe_filename == secure_filename(filename)
    IN  IF w.up /\ safe_filename \in ZipNames /\ w.zips[safe_filename].present
        THEN [w |-> Logged([w EXCEPT !.zips[safe_filename] = NoZip], "remove_zip"),
              status |-> 200, message |-> "Procreate_Stamps.zip",
              download_url |-> NoUrl, archive |-> w.zips[safe_filename].entries]
        ELSE Return(Logged(w, "remove_failed"), 404, "Not Found")

\* ------------------------------------------------------------------ actions

\* A convert-single request: the form fields and the uploaded file.
Request(session_id, license_key, is_first_file, is_last_file, brush_file) ==
    [session_id |-> session_id, license_key |-> license_key,
     is_first_file |-> is_first_file, is_last_file |-> is_last_file,
     brush_file |-> brush_file]

QualifyingCount(brush_file) == Cardinality({ e \in brush_file.entries : Qualifies(e) })

\* What `req` keeps of a request: the fields the handler read.  license_key
\* is read on a first file only (line 145); the file is not read when the
\* license check ends the request.  Of a file that was read, `req` keeps
\* its kind and the numbers of its entries and of its qualifying images;
\* `check` is what the licensing service did when asked to validate.
Seen(op, r, svcCheck, fileRead, filename) ==
    [op |-> op, session_id |-> r.session_id,
     license_key |-> IF r.is_first_file THEN r.license_key ELSE "unread",
     check |-> IF r.is_first_file /\ r.license_key # None THEN svcCheck ELSE "uncalled",
     is_first_file |-> r.is_first_file, is_last_file |-> r.is_last_file,
     kind |-> IF fileRead THEN r.brush_file.kind ELSE "unread",
     entries |-> IF fileRead THEN Cardinality(r.brush_file.entries) ELSE 0,
     qualifying |-> IF fileRead THEN QualifyingCount(r.brush_file) ELSE 0,
     filename |-> filename]

NoRequest == Request(<<>>, None, FALSE, FALSE, NoUpload)

\* The number of images the session of directory d has been fed when a
\* request that carried k qualifying images leaves `out`.
FedAtResponse(w, out, d, k) ==
    (IF DirExists(w, d) THEN fed[d] ELSE 0) + (IF out.status = 200 THEN k ELSE 0)

\* The ghost variable `fed` after that request.
FedAfter(w, out, d, k) ==
    [x \in DirNames |->
        IF ~ DirExists(out.w, x) THEN 0
        ELSE IF x = d THEN FedAtResponse(w, out, d, k)
        ELSE IF DirExists(w, x) THEN fed[x] ELSE 0]

\* The ghost variable `trusted` after a request that leaves `out`: a
\* packaged session is finalized; a first file that passed the license
\* check (lines 145-162) is trusted with the key id that passed.
TrustedAfter(w, r, svcCheck, out) ==
    IF out.status = 200 /\ out.download_url # NoUrl
    THEN [trusted EXCEPT ![r.session_id] = "finalized"]
    ELSE IF r.is_first_file /\ FirstFile(w, r, svcCheck).pass
    THEN [trusted EXCEPT ![r.session_id] = validate_license_key(w, r.license_key, svcCheck).id]
    ELSE trusted

Install(out) ==
    /\ uploadsExists' = out.w.up
    /\ sessionDirs' = out.w.dirs
    /\ keyIdFile' = out.w.key
    /\ sessionImages' = out.w.imgs
    /\ zipFiles' = out.w.zips
    /\ extractDirs' = out.w.ext
    /\ tempFiles' = out.w.tmp
    /\ uses' = out.w.uses
    /\ log' = out.w.log

\* The handler of POST /convert-single, applied to the files and the
\* service as they are.
Handle(r, svcCheck, svcSettle) ==
    /\ \E out \in { convert_single(World, r, svcCheck, svcSettle) } :
       LET d == secure_filename(r.session_id)
           k == QualifyingCount(r.brush_file)
       IN  /\ Install(out)
           /\ resp' = [status |-> out.status, message |-> out.message,
                       download_url |-> out.download_url, archive |-> out.archive,
                       fed |-> FedAtResponse(World, out, d, k)]
           /\ fed' = FedAfter(World, out, d, k)
           /\ trusted' = TrustedAfter(World, r, svcCheck, out)
    /\ req' = Seen("convert", r, svcCheck,
                   ~ r.is_first_file \/ FirstFile(World, r, svcCheck).pass, <<>>)
    /\ requests' = requests + 1

\* POST /convert-single
ConvertSingle(r, svcCheck, svcSettle) ==
    /\ requests < MaxRequests
    /\ Handle(r, svcCheck, svcSettle)

\* GET /download-zip/<filename>
DownloadZip(filename) ==
    /\ \E out \in { download_zip(World, filename) } :
           /\ Install(out)
           /\ resp' = [status |-> out.status, message |-> out.message,
                       download_url |-> out.download_url, archive |-> out.archive,
                       fed |-> 0]
    /\ req' = Seen("download", NoRequest, "ok", FALSE, filename)
    /\ UNCHANGED << requests, fed, trusted >>

\* The license_key a request carries is read on a first file only (lines
\* 145-146); other requests come without one or with one that would fail.
ConvertRequests ==
    { Request(s, k, TRUE, l, u) :
        s \in SessionIds, k \in LicenseKeys, l \in BOOLEAN, u \in Uploads }
    \cup
    { Request(s, k, FALSE, l, u) :
        s \in SessionIds, k \in {None, "KEY-EXPIRED"}, l \in BOOLEAN, u \in Uploads }

\* The licensing service answers or not, each time it is called.  An
\* outage during the check shows only for a key the service would accept;
\* the usage update is reached only by a last file that is a zip file.
CheckOutcomes(r) ==
    IF r.is_first_file /\ r.license_key = "KEY-GOOD" THEN ServiceOutcomes ELSE {"ok"}

SettleOutcomes(r) ==
    IF r.is_last_file /\ r.brush_file.kind = "zip" THEN ServiceOutcomes ELSE {"ok"}

Init ==
    /\ uploadsExists = TRUE
    /\ sessionDirs = {}
    /\ keyIdFile = [d \in DirNames |-> NoFile]
    /\ sessionImages = [d \in DirNames |-> {}]
    /\ zipFiles = [z \in ZipNames |-> NoZip]
    /\ extractDirs = {}
    /\ tempFiles = {}
    /\ uses = [k \in KeyIds |-> 0]
    /\ requests = 0
    /\ req = Seen("none", NoRequest, "ok", FALSE, <<>>)
    /\ resp = [status |-> 0, message |-> "", download_url |-> NoUrl, archive |-> {}, fed |-> 0]
    /\ log = <<>>
    /\ fed = [d \in DirNames |-> 0]
    /\ trusted = [s \in SessionIds |-> "none"]

Next ==
    \/ \E r \in ConvertRequests :
         \E svcCheck \in CheckOutcomes(r), svcSettle \in SettleOutcomes(r) :
            ConvertSingle(r, svcCheck, svcSettle)
    \/ \E filename \in DownloadNames : DownloadZip(filename)

Spec == Init /\ [][Next]_vars

\* ------------------------------------------- sessions that share one key

\* Number of convert-single requests in a run of SessionsSpec.
MaxSessionRequests == 3

\* The units of these sessions: a well-formed archive of no image or of one
\* qualifying image.
SessionUploads ==
    { Upload("zip", {}), Upload("zip", { Entry("shape", "png", TRUE, 2048, 2048) }) }

\* Every first file carries a key the service accepts: the limited one or
\* one without activation limit.
SessionRequests ==
    { Request(s, k, TRUE, l, u) :
        s \in SessionIds, k \in {"KEY-GOOD", "KEY-UNLIMITED"}, l \in BOOLEAN,
        u \in SessionUploads }
    \cup
    { Request(s, None, FALSE, l, u) :
        s \in SessionIds, l \in BOOLEAN, u \in SessionUploads }

\* POST /convert-single, the licensing service answering every call.
SessionRequest(r) ==
    /\ requests < MaxSessionRequests
    /\ Handle(r, "ok", "ok")

SessionsNext ==
    \/ \E r \in SessionRequests : SessionRequest(r)
    \/ \E filename \in DownloadNames : DownloadZip(filename)

SessionsSpec == Init /\ [][SessionsNext]_vars

\* ------------------------------------------------ process_brushset alone

\* Number of calls of process_brushset in a run of FilterSpec.
MaxCalls == 2

\* Largest number of entries of an archive given to it.
MaxArchive == 2

\* Files an archive can hold: images of either accepted suffix, in either
\* case, at, above and below the threshold in each dimension, the excluded
\* auxiliary file, a file with an image suffix that does not decode, a file
\* that is no image, and an image whose suffix is not in the list of line 113.
ArchiveEntries ==
    { Entry("shape", "png", TRUE, 2048, 2048),
      Entry("shape", "PNG", TRUE, 1024, 1024),
      Entry("grain", "jpeg", TRUE, 1024, 2048),
      Entry("wide", "png", TRUE, 2048, 512),
      Entry("tall", "jpg", TRUE, 512, 2048),
      Entry("artwork", "png", TRUE, 2048, 2048),
      Entry("Artwork", "PNG", TRUE, 2048, 2048),
      Entry("broken", "png", FALSE, 0, 0),
      Entry("notes", "txt", FALSE, 0, 0),
      Entry("photo", "webp", TRUE, 2048, 2048) }

Archives ==
    { Upload("notzip", {}), Upload("unreadable", {}) }
    \cup { Upload("zip", es) :
             es \in { x \in SUBSET ArchiveEntries : Cardinality(x) <= MaxArchive } }

\* A call process_brushset(filepath): `req` keeps the archive, `resp` what
\* the call returned; the extraction folder of a successful call is left to
\* the caller.
ProcessBrushset(brush_file) ==
    /\ requests < MaxCalls
    /\ \E p \in { process_brushset(World, brush_file) } :
           /\ Install([w |-> p.w])
           /\ resp' = [images |-> p.images, error |-> p.error, dir |-> p.dir]
    /\ req' = [op |-> "process_brushset", kind |-> brush_file.kind,
               entries |-> brush_file.entries]
    /\ requests' = requests + 1
    /\ UNCHANGED << fed, trusted >>

FilterNext == \E brush_file \in Archives : ProcessBrushset(brush_file)

FilterSpec == Init /\ [][FilterNext]_vars

\* ------------------------------------------------------------ properties

IsConvert == req.op = "convert"

\* The session directory of the request handled last.
ReqDir == secure_filename(req.session_id)

HasLog(event) == \E i \in 1..Len(log) : log[i] = event

CountLog(event) == Cardinality({ i \in 1..Len(log) : log[i] = event })

\* Every `later` of the log has an `earlier` before it.
Precedes(earlier, later) ==
    \A j \in 1..Len(log) : log[j] = later => \E i \in 1..(j - 1) : log[i] = earlier

Packaged == resp.status = 200 /\ resp.download_url # NoUrl

DistinctNames(files) == Cardinality({ f.name : f \in files }) = Cardinality(files)

\* A step that handles a convert-single request.
ConvertStep == requests' = requests + 1

\* C1 as claimed: a session settles once if it reaches a request with
\* is_last_file=true and never otherwise.  A request that is both first and
\* last, and passes the license check, is such a session from start to end.
C1_AsClaimed ==
    (IsConvert /\ req.is_first_file /\ req.is_last_file /\ HasLog("write_key_id"))
        => CountLog("increment_license_usage") = 1

\* What C1, amended, says of one step.
C1_Step ==
    ConvertStep =>
        LET d == secure_filename(req'.session_id)
            n == Cardinality({ i \in 1..Len(log') : log'[i] = "increment_license_usage" })
            packaged == resp'.status = 200 /\ resp'.download_url # NoUrl
            hadKey == (DirExists(World, d) /\ keyIdFile[d] # NoFile)
                      \/ (\E i \in 1..Len(log') : log'[i] = "write_key_id")
        IN  /\ n <= 1
            /\ n = 1 => (req'.is_last_file /\ packaged /\ keyIdFile'[d] = NoFile)
            /\ (packaged /\ hadKey) => n = 1
            /\ \A id \in KeyIds : uses'[id] - uses[id] \in {0, 1}
            /\ Cardinality({ id \in KeyIds : uses'[id] # uses[id] }) <= n

\* C1, amended: a convert-single request calls increment_license_usage at
\* most once, and only when it is flagged is_last_file and has packaged the
\* session; a request that ends in an error calls it 0 times, last file or
\* not.  A packaged session that has a stored key id gets exactly one call
\* however many units it accumulated, the call changes the balance of one
\* key by at most 1, and takes the stored key id away with the session.
C1_SettledOncePerPackagedSession == [][C1_Step]_vars

\* C1 witness: the second of two units, each of two qualifying images,
\* packages the session, and the key has been charged once.
C1_Witness ==
    /\ IsConvert /\ Packaged /\ ReqDir # Root
    /\ requests = 2 /\ ~ req.is_first_file /\ req.is_last_file
    /\ req.qualifying = 2 /\ resp.fed = 4
    /\ CountLog("increment_license_usage") = 1
    /\ uses["id-good"] = 1

\* C2: within a request, increment_license_usage is called only after the
\* output archive has been written, and a request that fails (no file, a
\* corrupt archive, an unexpected processing error, an exception) does not
\* call it, last file or not.
C2_SettleOnlyAfterPackaging ==
    IsConvert =>
        /\ Precedes("zip_written", "increment_license_usage")
        /\ HasLog("increment_license_usage") => Packaged
        /\ req.kind \in {"none", "notzip", "unreadable"} =>
               (resp.status # 200 /\ ~ HasLog("increment_license_usage"))

\* C2 witness: a packaged session whose usage update followed the archive.
C2_Witness ==
    /\ IsConvert /\ Packaged
    /\ HasLog("increment_license_usage") /\ HasLog("zip_written")
    /\ zipFiles[resp.download_url].present

\* The license check of request r fails, the service holding the counts u.
LicenseCheckFails(r, u) ==
    \/ r.license_key = None
    \/ r.check = "down"
    \/ r.license_key \notin DOMAIN LicenseDB
    \/ LicenseDB[r.license_key].status # "active"
    \/ /\ LicenseDB[r.license_key].limited
       /\ u[LicenseDB[r.license_key].id] >= LicenseDB[r.license_key].activation_limit

\* The service answers that the key is known and is inactive or exhausted.
LicenseRefused(r, u) ==
    /\ r.license_key \in DOMAIN LicenseDB
    /\ r.check = "ok"
    /\ LicenseCheckFails(r, u)

\* What C3 says of one step.
C3_Step ==
    (ConvertStep /\ req'.is_first_file /\ LicenseCheckFails(req', uses)) =>
        /\ UNCHANGED << uploadsExists, sessionDirs, keyIdFile, sessionImages,
                        zipFiles, extractDirs, tempFiles, uses >>
        /\ resp'.status \in {400, 403}
        /\ LicenseRefused(req', uses) => resp'.status = 403
        /\ \A i \in 1..Len(log') : log'[i] = "validate_license_key"

\* C3: a first-file request whose license check fails (no key, unknown key,
\* status not active, uses >= activation_limit, service unreachable) changes
\* no file and no counter: nothing is saved or extracted, no session
\* directory or key_id.txt is made, no usage update is sent; the response is
\* an error, 403 when the service says the key is inactive or exhausted.
C3_FailedCheckIsHardStop == [][C3_Step]_vars

\* C3 witness: the second first-file request with a key whose one use the
\* first session consumed is refused with 403, and nothing is on disk for it.
C3_Witness ==
    /\ IsConvert /\ req.is_first_file /\ req.license_key = "KEY-GOOD" /\ req.check = "ok"
    /\ resp.status = 403
    /\ uses["id-good"] >= ActivationLimit
    /\ ~ DirExists(World, ReqDir) \/ keyIdFile[ReqDir] = NoFile
    /\ req.kind = "unread"

\* C4: every session directory holds exactly the qualifying images of the
\* units accepted into it, under distinct names, and the archive a last
\* file writes has exactly that many entries, under distinct names.
C4_AccumulationKeepsEveryImage ==
    /\ \A d \in DirNames :
          /\ Cardinality(sessionImages[d]) = fed[d]
          /\ DistinctNames(sessionImages[d])
    /\ (IsConvert /\ Packaged) =>
          /\ Cardinality(resp.archive) = resp.fed
          /\ DistinctNames(resp.archive)

\* C4 witness: two units of two qualifying images each, first then last,
\* packaged into an archive of four entries that is in the uploads folder.
C4_Witness ==
    /\ IsConvert /\ Packaged /\ requests = 2
    /\ ~ req.is_first_file /\ req.qualifying = 2
    /\ resp.fed = 4 /\ Cardinality(resp.archive) = 4
    /\ uploadsExists /\ zipFiles[resp.download_url] = Zip(resp.archive)

\* A step that handles a convert-single request for a session directory
\* under the uploads folder, the folder being there.
OrdinaryStep ==
    /\ ConvertStep
    /\ uploadsExists
    /\ secure_filename(req'.session_id) # Root

\* The request of this step left none of its scratch files behind.
ScratchPurged == tempFiles' \subseteq tempFiles /\ extractDirs' \subseteq extractDirs

\* C5 as claimed: a request without a file or with a file that is no zip
\* file is answered 400, changes no balance, and leaves no temp file, no
\* extraction folder, no session directory and no stored key id, first or
\* last file or neither.
C5_AsClaimed ==
    [][ (OrdinaryStep /\ req'.kind \in {"none", "notzip"}) =>
            /\ resp'.status = 400
            /\ ScratchPurged
            /\ uses' = uses
            /\ secure_filename(req'.session_id) \notin sessionDirs'
            /\ keyIdFile'[secure_filename(req'.session_id)] = NoFile ]_vars

\* C6 as claimed: a well-formed archive without a qualifying image is
\* answered with a failure: the request does not succeed, package or
\* settle, and leaves no extraction folder.
C6_AsClaimed ==
    [][ (OrdinaryStep /\ req'.kind = "zip" /\ req'.qualifying = 0) =>
            /\ resp'.status # 200
            /\ resp'.download_url = NoUrl
            /\ uses' = uses
            /\ ScratchPurged ]_vars

\* C7 as claimed: when a convert-single request ends, the temp file and
\* the extraction folder it made are gone, whatever way it ends.
C7_AsClaimed == [][ OrdinaryStep => ScratchPurged ]_vars

\* C8 as claimed: a last-file request whose usage update fails still
\* answers with the download locator, and the archive it wrote is in the
\* uploads folder under that name.
C8_AsClaimed ==
    (IsConvert /\ HasLog("patch_error")) =>
        /\ Packaged
        /\ uploadsExists
        /\ zipFiles[ZipName(ReqDir)] = Zip(resp.archive)

\* C8 holds of every session whose directory is not the uploads folder.
C8_OffRoot ==
    (IsConvert /\ HasLog("patch_error") /\ ReqDir # Root) =>
        /\ Packaged
        /\ uploadsExists
        /\ resp.download_url = ZipName(ReqDir)
        /\ zipFiles[ZipName(ReqDir)] = Zip(resp.archive)

\* C9 as claimed: distinct session ids have distinct directories, so an
\* archive holds only images uploaded under the session id it is made for.
C9_AsClaimed ==
    (IsConvert /\ Packaged) => \A f \in resp.archive : f.owner = req.session_id

\* The entry limit of C10: any number below the largest archive.
EntryLimit == MaxEntries - 1

\* C10 as claimed: an archive of more entries than the limit, once
\* uploaded, is refused before anything of it is extracted.
C10_AsClaimed ==
    (IsConvert /\ ReqDir # Root /\ HasLog("save_temp") /\ req.kind = "zip"
        /\ req.entries > EntryLimit) =>
        /\ resp.status = 400
        /\ ~ HasLog("extractall")

IsDownload == req.op = "download"

\* A step that handles a download-zip request.
DownloadStep == requests' = requests /\ req'.op = "download"

\* What C11 says of one step.
C11_Step ==
    DownloadStep =>
        LET f == secure_filename(req'.filename)
        IN  /\ ~ zipFiles'[f].present
            /\ resp'.status \in {200, 404}
            /\ resp'.status = 200 <=> (uploadsExists /\ zipFiles[f].present)
            /\ resp'.status = 200 => resp'.archive = zipFiles[f].entries
            /\ (IsDownload /\ req.filename = req'.filename) =>
                   (resp'.status = 404 /\ resp'.archive = {})
            /\ \A z \in ZipNames \ {f} : zipFiles'[z] = zipFiles[z]

\* C11: when a download-zip request for a locator ends, having sent the
\* archive or not, no file of that name is in the uploads folder; the
\* archive is sent only if it was there, and a download request that
\* follows a download request for the same locator is answered 404 and
\* sends nothing.  No other archive is touched.
C11_SingleUseDownload == [][C11_Step]_vars

\* C11 witness: a download has sent an archive of at least one image, and
\* the archive is gone from the uploads folder, which is still there.
C11_Witness ==
    /\ IsDownload /\ resp.status = 200 /\ resp.archive # {}
    /\ uploadsExists
    /\ ~ zipFiles[secure_filename(req.filename)].present

\* C12 as claimed: after a last-file request has succeeded the session
\* directory is gone with its images and its key_id.txt, and the archive
\* the response names is in the uploads folder, outside that directory.
C12_AsClaimed ==
    (IsConvert /\ req.is_last_file /\ Packaged) =>
        /\ ReqDir \notin sessionDirs
        /\ keyIdFile[ReqDir] = NoFile
        /\ sessionImages[ReqDir] = {}
        /\ zipFiles[resp.download_url].present
        /\ zipFiles[resp.download_url].entries = resp.archive

\* C13 as claimed: once a session id has been packaged, a last-file
\* request for it that is not a first file fails: it returns no download
\* locator and sends no usage update.  Said of the session ids whose
\* directory is under the uploads folder.
C13_AsClaimed ==
    [][ (ConvertStep /\ req'.is_last_file /\ ~ req'.is_first_file
            /\ secure_filename(req'.session_id) # Root
            /\ trusted[req'.session_id] = "finalized") =>
            /\ resp'.status # 200
            /\ resp'.download_url = NoUrl
            /\ uses' = uses ]_vars

\* C14: a convert-single request calls validate_license_key once, before
\* anything else, if it is flagged is_first_file and carries a license key,
\* and not at all otherwise: never when is_first_file is false, whatever
\* license_key it carries.  A session id becomes trusted only by a request
\* that made the call.
C14_CheckOnlyOnFirstFile ==
    IsConvert =>
        /\ CountLog("validate_license_key") =
               (IF req.is_first_file /\ req.license_key # None THEN 1 ELSE 0)
        /\ HasLog("validate_license_key") => log[1] = "validate_license_key"
        /\ ~ req.is_first_file => req.check = "uncalled"
        /\ HasLog("write_key_id") => HasLog("validate_license_key")

\* C14 witness: the second request of a session, not flagged first, is
\* accepted without a license check; the session is trusted by the check
\* its first file passed.
C14_Witness ==
    /\ IsConvert /\ requests = 2
    /\ ~ req.is_first_file /\ ~ req.is_last_file
    /\ resp.status = 200 /\ req.qualifying > 0
    /\ ~ HasLog("validate_license_key")
    /\ trusted[req.session_id] \in KeyIds
    /\ keyIdFile[ReqDir] = trusted[req.session_id]

\* An image of at least 1024x1024, whatever its name.
LargeImage(e) == e.decodable /\ e.width >= 1024 /\ e.height >= 1024

IsArtworkPng(e) == Lower(e.stem) = "artwork" /\ Lower(e.ext) = "png"

\* C15 as claimed: of a well-formed archive process_brushset returns
\* exactly the files that decode as images of width and height at least
\* 1024 and are not named artwork.png; every file it returns is that
\* large, and it returns at least one when the archive holds such a file.
C15_AsClaimed ==
    (req.op = "process_brushset" /\ req.kind = "zip") =>
        /\ resp.error = None
        /\ \A e \in resp.images : e.width >= 1024 /\ e.height >= 1024
        /\ resp.images = { e \in req.entries : LargeImage(e) /\ ~ IsArtworkPng(e) }
        /\ (\E e \in req.entries : LargeImage(e) /\ ~ IsArtworkPng(e)) => resp.images # {}

\* C16 as claimed: the licensing service applying every usage update it
\* gets, the uses of a key with an activation limit never exceed the limit.
C16_AsClaimed ==
    \A k \in DOMAIN LicenseDB :
        LicenseDB[k].limited => uses[LicenseDB[k].id] <= LicenseDB[k].activation_limit

\* The request of this step is a first file that passed the license check.
PassedCheck == req'.is_first_file /\ \E i \in 1..Len(log') : log'[i] = "write_key_id"

\* The request of this step answered with a download locator.
PackagedStep == ConvertStep /\ resp'.status = 200 /\ resp'.download_url # NoUrl

\* The archive that locator names is in the uploads folder and holds images.
HandedOut == zipFiles'[resp'.download_url].present /\ zipFiles'[resp'.download_url].entries # {}

\* C17 as claimed: a request answers with the download locator of an
\* archive of images only for a session id that passed a first-file
\* license check, in this request or in an earlier one, and has not been
\* packaged since.
C17_AsClaimed ==
    [][ (PackagedStep /\ HandedOut) =>
            (PassedCheck \/ trusted[req'.session_id] \in KeyIds) ]_vars

\* The key id the session of this step's request is trusted with: the one
\* that passed the check in this request, or in its last first file.
TrustedKey ==
    IF PassedCheck THEN LicenseDB[req'.license_key].id ELSE trusted[req'.session_id]

\* C18 as claimed: when a session that passed a license check is packaged,
\* a usage update is sent, and the one key it can change is the key that
\* passed the check of the session's most recent first file.
C18_AsClaimed ==
    [][ (PackagedStep /\ TrustedKey \in KeyIds) =>
            /\ \E i \in 1..Len(log') : log'[i] = "increment_license_usage"
            /\ \A id \in KeyIds \ {TrustedKey} : uses'[id] = uses[id]
            /\ (\E i \in 1..Len(log') : log'[i] = "patch_ok") =>
                   uses'[TrustedKey] = uses[TrustedKey] + 1 ]_vars

\* C19 as claimed: a convert-single request leaves every archive that is
\* in the uploads folder as it is.  Said of the requests for a session
\* directory under the uploads folder that end in an error.
C19_AsClaimed ==
    [][ (OrdinaryStep /\ resp'.status # 200) =>
            \A z \in ZipNames : zipFiles[z].present => zipFiles'[z] = zipFiles[z] ]_vars

====
